---- MODULE Spec2Model ----
(***************************************************************************)
(* Model of shopify_dashboard.py: the stock sheet (stock_current), the     *)
(* movement log (stock_movements), the baseline_datetime setting, the      *)
(* order source with its 120 s fetch cache, and the script runs that       *)
(* synchronise orders (apply_shopify_deductions), save a baseline and      *)
(* apply a manual stock change (apply_manual_delta).                       *)
(*                                                                         *)
(* Every call that reads or writes a sheet or the order source is one      *)
(* step of a session, so that a failing call (an exception of gspread or   *)
(* requests, or the process stopping) can end a run between two writes     *)
(* and so that two sessions sharing the sheet can interleave.              *)
(*                                                                         *)
(* Timestamps: an ISO string is its form (with a UTC offset, without one,   *)
(* not ISO at all, empty) and the instant it denotes; parsing maps the two  *)
(* valid forms to the instant.  The order source always sends created_at    *)
(* with an offset.  Order ids: a Shopify                                    *)
(* id is a JSON integer, str(id) is its decimal form and the sheet gives   *)
(* the same decimal form back, so an id is modelled by its number; id 0    *)
(* stands for a missing id (`o.get("id") or ""` is "" for both).           *)
(***************************************************************************)
EXTENDS Integers, Sequences, FiniteSets, TLC

\* ------------------------------------------------------------------ bounds
MaxOrders == 2      \* orders the source may hold
MaxTime == 1        \* instants 0..MaxTime
MaxManual == 1      \* presses of Feltöltés / Levonás
MaxQty == 7         \* the largest quantity of a single line item

\* ------------------------------------------------------- program constants
FetchLimit == 250   \* shopify_get_orders_since(limit=250)

Sessions == {1, 2}          \* browser sessions sharing the sheet
Times == 0..MaxTime         \* instants

\* ISO strings
Iso(t) == [kind |-> "aware", t |-> t]        \* 2025-12-18T15:45:00+00:00
NaiveIso(t) == [kind |-> "naive", t |-> t]   \* 2025-12-18T15:45:00
BadIso == [kind |-> "bad", t |-> 0]          \* fromisoformat rejects it
EmptyIso == [kind |-> "empty", t |-> 0]      \* "" or a missing value

EnvNames == {"F16", "H18", "I19", "K20"}
Items == {"mosolap"} \cup EnvNames

\* ------------------------------------------------------------ pure helpers

\* A title is named by its text; a letter with an accent is written as the
\* letter and a mark (o: for o with double acute, e' and i' for e and i with
\* acute), and is one character.  Chars gives the characters of a title.
Titles ==
    {"Mosolap 60 db",
     "Express shipping label",
     "GYORSITOTT kiszallitas",
     "Elsobbsegi kezeles",
     "ELSO:BBSE'GI ke'zbesi'te's"}
Chars(title) ==
    CASE title = "Mosolap 60 db" ->
           <<"M", "o", "s", "o", "l", "a", "p", " ", "6", "0", " ", "d",
           "b">>
      [] title = "Express shipping label" ->
           <<"E", "x", "p", "r", "e", "s", "s", " ", "s", "h", "i", "p",
           "p", "i", "n", "g", " ", "l", "a", "b", "e", "l">>
      [] title = "GYORSITOTT kiszallitas" ->
           <<"G", "Y", "O", "R", "S", "I", "T", "O", "T", "T", " ", "k",
           "i", "s", "z", "a", "l", "l", "i", "t", "a", "s">>
      [] title = "Elsobbsegi kezeles" ->
           <<"E", "l", "s", "o", "b", "b", "s", "e", "g", "i", " ", "k",
           "e", "z", "e", "l", "e", "s">>
      [] title = "ELSO:BBSE'GI ke'zbesi'te's" ->
           <<"E", "L", "S", "O:", "B", "B", "S", "E'", "G", "I", " ", "k",
           "e'", "z", "b", "e", "s", "i'", "t", "e'", "s">>

\* str.lower() on one character
UpperCase ==
    <<"A", "B", "C", "D", "E", "F", "G", "H", "I", "J", "K", "L", "M", "N",
    "O", "P", "Q", "R", "S", "T", "U", "V", "W", "X", "Y", "Z", "O:", "E'",
    "I'">>
LowerCase ==
    <<"a", "b", "c", "d", "e", "f", "g", "h", "i", "j", "k", "l", "m", "n",
    "o", "p", "q", "r", "s", "t", "u", "v", "w", "x", "y", "z", "o:", "e'",
    "i'">>

\* mutant: the title is compared as it is written
lower_unchanged(c) == c

lower(c) ==
    IF \E j \in DOMAIN UpperCase : UpperCase[j] = c
    THEN LowerCase[CHOOSE j \in DOMAIN UpperCase : UpperCase[j] = c]
    ELSE c

\* line 140: the keywords
keywords ==
    {<<"e", "l", "s", "o:", "b", "b", "s", "e'", "g", "i">>,
     <<"e", "l", "s", "o", "b", "s", "e", "g", "i">>,
     <<"p", "r", "i", "o", "r", "i", "t", "y">>,
     <<"e", "x", "p", "r", "e", "s", "s">>,
     <<"g", "y", "o", "r", "s", "i'", "t", "o", "t", "t">>,
     <<"g", "y", "o", "r", "s", "i", "t", "o", "t", "t">>}

\* `k in t`: the keyword is a substring of the text
Contains(t, k) ==
    \E j \in 1..(Len(t) - Len(k) + 1) : SubSeq(t, j, j + Len(k) - 1) = k

\* lines 139-141 on every title
PriorityTitle ==
    [title \in Titles |->
        LET t == [j \in DOMAIN Chars(title) |-> lower(Chars(title)[j])]
        IN  \E k \in keywords : Contains(t, k)]

\* is_priority_item
is_priority_item(title) == PriorityTitle[title]

\* mutant: the H18 / I19 boundary moved by one
envelope_type_shifted(qty) ==
    IF qty = 1 THEN "F16"
    ELSE IF qty = 2 THEN "H18"
    ELSE IF qty \in {3, 4} THEN "I19"
    ELSE IF qty \in {5, 6} THEN "K20"
    ELSE "Nincs"

\* mutant: every quantity from 5 on gets the largest envelope
envelope_type_open_ended(qty) ==
    IF qty = 1 THEN "F16"
    ELSE IF qty \in {2, 3} THEN "H18"
    ELSE IF qty = 4 THEN "I19"
    ELSE IF qty >= 5 THEN "K20"
    ELSE "Nincs"

\* envelope_type
envelope_type(qty) ==
    IF qty = 1 THEN "F16"
    ELSE IF qty \in {2, 3} THEN "H18"
    ELSE IF qty = 4 THEN "I19"
    ELSE IF qty \in {5, 6} THEN "K20"
    ELSE "Nincs"

\* parse_iso_dt raises ValueError on an empty or an invalid string;
\* otherwise it returns the instant (a naive value is read as UTC)
parse_iso_raises(s) == s.kind \in {"empty", "bad"}
parse_iso_dt(s) == s.t

\* a cell of the quantity column: a number, or text that is no number
Cell(n) == [numeric |-> TRUE, value |-> n]
BlankCell == [numeric |-> FALSE, value |-> 0]

\* pd.to_numeric(..., errors="coerce").fillna(0).astype(int) on one cell
to_int(cell) ==
    IF cell.numeric THEN cell.value ELSE 0

\* reason.strip()
strip(reason) ==
    IF reason \in {"", " ", "  "} THEN "" ELSE reason

RECURSIVE SumQty(_)
SumQty(items) ==
    IF items = <<>> THEN 0
    ELSE Head(items).quantity + SumQty(Tail(items))

\* lines 254-257: the quantity of the non-priority line items of an order
mos_qty_of(o) ==
    LET keep(i) == ~is_priority_item(i.title)
    IN  SumQty(SelectSeq(o.line_items, keep))

\* ------------------------------------------------------------ the sheets
\* stock_current: per item, whether it has a row and the row's quantity
\* cell.  A DataFrame read from it has integer quantities.

NoRow == [present |-> FALSE, cell |-> BlankCell]
Row(n) == [present |-> TRUE, cell |-> Cell(n)]
BlankRow == [present |-> TRUE, cell |-> BlankCell]

\* load_stock_df: the quantity column coerced to integers
load_stock_df(sheet) ==
    [i \in Items |->
        IF sheet[i].present THEN Row(to_int(sheet[i].cell)) ELSE NoRow]

\* the quantity the projection shows for an item (0 without a row)
Qty(sheet, i) == IF sheet[i].present THEN to_int(sheet[i].cell) ELSE 0

\* mutant: a missing row is appended with quantity 0 and left at that
add_to_stock_new_row_unchanged(df, item_name, delta) ==
    [df EXCEPT ![item_name] =
        IF df[item_name].present THEN Row(Qty(df, item_name) + delta) ELSE Row(0)]

\* add_to_stock: the row is appended with quantity 0 when it is missing
add_to_stock(df, item_name, delta) ==
    [df EXCEPT ![item_name] = Row(Qty(df, item_name) + delta)]

\* the row append_log writes; a reason is its text and, for an order, the
\* order's display name; source_id 0 is the empty string
Reason(text, name) == [text |-> text, name |-> name]
LogRow(timestamp, item_name, change, reason, source, source_id) ==
    [timestamp |-> timestamp, item_name |-> item_name, change |-> change,
     reason |-> reason, source |-> source, source_id |-> source_id]

\* mutant: the source column compared without lower-casing
processed_ids_of_case_sensitive(log_df) ==
    {log_df[j].source_id : j \in {k \in DOMAIN log_df : log_df[k].source = "Shopify"}}

\* lines 198-200: source_ids of the log rows whose source is shopify
processed_ids_of(log_df) ==
    {log_df[j].source_id : j \in {k \in DOMAIN log_df : log_df[k].source = "shopify"}}

\* ------------------------------------------------------- the order source

\* line items of the orders the source creates: Scenario A (3 + a priority
\* item), only a priority item (quantity 0), seven items
LineItemChoices ==
    { << [title |-> "Mosolap 60 db", quantity |-> 3],
         [title |-> "Express shipping label", quantity |-> 2] >>,
      << [title |-> "GYORSITOTT kiszallitas", quantity |-> 5] >>,
      << [title |-> "Mosolap 60 db", quantity |-> 3],
         [title |-> "Mosolap 60 db", quantity |-> 4] >> }

\* line items over every title and quantity: one mosolap item of quantity
\* 1..MaxQty, or an item of quantity 3 and one of quantity 5 with any titles
WideLineItems ==
    { << [title |-> "Mosolap 60 db", quantity |-> q] >> : q \in 1..MaxQty }
    \cup { << [title |-> t1, quantity |-> 3], [title |-> t2, quantity |-> 5] >> :
              t1 \in Titles, t2 \in Titles }

\* shopify_get_orders_since: orders created at or after the baseline
\* (created_at_min is inclusive), oldest first, at most `limit`
shopify_get_orders_since(src, baseline_dt) ==
    LET since(o) == o.t >= baseline_dt
        all == SelectSeq(src, since)
    IN  SubSeq(all, 1, IF Len(all) < FetchLimit THEN Len(all) ELSE FetchLimit)

\* mutant: only an order older than the baseline is dropped
is_new_order_inclusive(o, processed_ids, baseline_dt) ==
    /\ o.id # 0
    /\ o.id \notin processed_ids
    /\ o.created_at.kind # "empty"
    /\ o.created_at.kind # "bad"
    /\ ~(o.created_at.t < baseline_dt)

\* mutant: the order is not looked up among the processed ids
is_new_order_no_dedup(o, processed_ids, baseline_dt) ==
    /\ o.id # 0
    /\ o.created_at.kind # "empty"
    /\ o.created_at.kind # "bad"
    /\ ~(o.created_at.t <= baseline_dt)

\* lines 206-222: is the fetched order kept as new
is_new_order(o, processed_ids, baseline_dt) ==
    /\ o.id # 0
    /\ o.id \notin processed_ids
    /\ o.created_at.kind # "empty"
    /\ o.created_at.kind # "bad"
    /\ ~(o.created_at.t <= baseline_dt)

\* ------------------------------------------------------------------ state

VARIABLES
    stock,      \* sheet stock_current
    log,        \* sheet stock_movements, oldest row first
    baseline,   \* settings row baseline_datetime (an ISO string)
    orders,     \* the orders at the source, oldest first
    cache,      \* st.cache_data of cached_orders_since: baseline_iso -> orders
    now,        \* the clock
    ses,        \* per session: the running script's position and locals
    presses,    \* how often Feltöltés or Levonás was pressed
    \* history, read by the properties only
    base,       \* the stock sheet at the start
    mark,       \* per session: the sheets when the handler and its sync call began
    prev,       \* the sync call that returned last
    dirty       \* a write call has failed

hist == <<base, mark, prev, dirty>>
vars == <<stock, log, baseline, orders, cache, now, ses, presses,
          base, mark, prev, dirty>>

EmptyCache == [k \in {} |-> <<>>]
ZeroCounts == [e \in EnvNames |-> 0]
NoResult == [status |-> "none", at |-> "none", processed_orders |-> 0,
             total_mosolap_delta |-> 0, env_counts |-> ZeroCounts]

\* the sheets as a button's handler and as its sync call found them
Snapshot == [stock |-> stock, len |-> Len(log), baseline |-> baseline]
NoSnapshot == [stock |-> [i \in Items |-> NoRow], len |-> 0, baseline |-> EmptyIso]
NoMark == [handler |-> NoSnapshot, sync |-> NoSnapshot, synced |-> FALSE]
\* the last returned sync call: how it ended, its baseline and fetch result
\* and, from the first of a row of failed calls on, the sheets it found
NoPrev == [status |-> "none", at |-> "none", key |-> EmptyIso, fetched |-> <<>>,
           stock0 |-> [i \in Items |-> NoRow], len0 |-> 0]

\* a session between two script runs
Idle ==
    [pc |-> "idle", op |-> "none",
     item |-> "mosolap", delta |-> 0, reason |-> "", in_ts |-> EmptyIso,
     baseline_iso |-> EmptyIso, baseline_dt |-> 0,
     stock_df |-> [i \in Items |-> NoRow], processed_ids |-> {},
     fetched |-> <<>>, new_orders |-> <<>>, k |-> 0, ts |-> EmptyIso,
     total_mosolap_delta |-> 0, env_counts |-> ZeroCounts,
     result |-> NoResult]

\* the sheets a deployment starts from: every item with a numeric row, or
\* H18 without a row and F16 with a non-numeric quantity
InitMosolap == 5
InitEnvelopes == 1
InitStocks ==
    { [i \in Items |-> IF i = "mosolap" THEN Row(InitMosolap) ELSE Row(InitEnvelopes)],
      [i \in Items |-> IF i = "mosolap" THEN Row(InitMosolap)
                       ELSE IF i = "H18" THEN NoRow
                       ELSE IF i = "F16" THEN BlankRow
                       ELSE Row(InitEnvelopes)] }

Init ==
    /\ stock \in InitStocks
    /\ log = <<>>
    /\ baseline \in {Iso(0), NaiveIso(1), BadIso, EmptyIso}
    /\ orders = <<>>
    /\ cache = EmptyCache
    /\ now = 0
    /\ ses = [s \in Sessions |-> Idle]
    /\ presses = 0
    /\ base = stock
    /\ mark = [s \in Sessions |-> NoMark]
    /\ prev = NoPrev
    /\ dirty = FALSE

\* ----------------------------------------------------------- environment
\* The clock, the order source and the cache's expiry are read only by the
\* first step of a run (the default baseline) and by the fetch; a change
\* of theirs at any other moment has the effect of the same change made
\* before the next of these steps, so they move only then.

EnvironmentMoves == \A s \in Sessions : ses[s].pc \in {"idle", "fetch"}

\* time passes
Tick ==
    /\ EnvironmentMoves
    /\ now < MaxTime
    /\ now' = now + 1
    /\ UNCHANGED <<stock, log, baseline, orders, cache, ses, presses, hist>>

\* the source gains an order event of one of the shapes: well-formed, or
\* malformed (no id, no created_at, an invalid created_at) with line items
\* of quantity 5 in all
OrderEvent(shapes, choices) ==
    /\ EnvironmentMoves
    /\ Len(orders) < MaxOrders
    /\ \E li \in choices, shape \in shapes :
        /\ shape # "ok" => SumQty(li) = 5
        /\ orders' = Append(orders,
              [id |-> IF shape = "no_id" THEN 0 ELSE Len(orders) + 1,
               name |-> Len(orders) + 1,
               t |-> now,
               created_at |-> IF shape = "no_ts" THEN EmptyIso
                              ELSE IF shape = "bad_ts" THEN BadIso
                              ELSE Iso(now),
               line_items |-> li])
    /\ UNCHANGED <<stock, log, baseline, cache, now, ses, presses, hist>>

\* a customer places an order
NewOrder == OrderEvent({"ok"}, LineItemChoices)

\* @st.cache_data(ttl=120): an entry older than 120 s is dropped
ExpireCache ==
    /\ EnvironmentMoves
    /\ \E key \in DOMAIN cache :
        cache' = [k \in DOMAIN cache \ {key} |-> cache[k]]
    /\ UNCHANGED <<stock, log, baseline, orders, now, ses, presses, hist>>

\* ----------------------------------------------------------- script runs
\* A click reruns the script for the session.  The Készlet tab first reads
\* the baseline setting and defaults an empty one to the current time
\* (lines 371-375), then runs the handler of the pressed button.

\* the form's inputs (item, signed amount, reason): Levonás 6 and Feltöltés 1
\* of mosolap, Feltöltés 1 with a blank reason, Levonás 1 of H18
AdjustInputs == {<<"mosolap", -6, "leltar">>, <<"mosolap", 1, "restock">>,
                 <<"mosolap", 1, " ">>, <<"H18", -1, "selejt">>}

\* the run's handler ends: with the counts apply_shopify_deductions returns
\* (lines 225, 279-280), or with an exception or a refusal, which carry a
\* message and no counts (line 435 shows str(e))
Finish(s, status, at) ==
    [ses EXCEPT ![s].pc = "done",
                ![s].result =
                    IF status = "ok"
                    THEN [status |-> status, at |-> at,
                          processed_orders |-> Len(ses[s].new_orders),
                          total_mosolap_delta |-> ses[s].total_mosolap_delta,
                          env_counts |-> ses[s].env_counts]
                    ELSE [NoResult EXCEPT !.status = status, !.at = at]]

\* the sync button, or the first opening of the tab (lines 414-419)
ClickSync(s) ==
    /\ ses[s].pc = "idle"
    /\ ses' = [ses EXCEPT ![s].pc = "page", ![s].op = "sync"]
    /\ UNCHANGED <<stock, log, baseline, orders, cache, now, presses, hist>>

\* "Baseline mentése": the date and time inputs give any instant
ClickSave(s) ==
    /\ ses[s].pc = "idle"
    /\ \E t \in Times :
        ses' = [ses EXCEPT ![s].pc = "page", ![s].op = "save",
                           ![s].in_ts = Iso(t)]
    /\ UNCHANGED <<stock, log, baseline, orders, cache, now, presses, hist>>

\* "Feltöltés" (delta > 0) or "Levonás" (delta < 0) with the form's inputs
ClickAdjust(s) ==
    /\ ses[s].pc = "idle"
    /\ presses < MaxManual
    /\ presses' = presses + 1
    /\ \E inp \in AdjustInputs, t \in Times :
        /\ stock[inp[1]].present
        /\ ses' = [ses EXCEPT ![s].pc = "page", ![s].op = "adjust",
                              ![s].item = inp[1], ![s].delta = inp[2],
                              ![s].reason = inp[3], ![s].in_ts = Iso(t)]
    /\ UNCHANGED <<stock, log, baseline, orders, cache, now, hist>>

\* lines 371-375
PageBaseline(s) ==
    /\ ses[s].pc = "page"
    /\ baseline' = IF baseline.kind = "empty" THEN Iso(now) ELSE baseline
    /\ ses' = [ses EXCEPT ![s].pc =
                  CASE ses[s].op = "save" -> "save_set"
                    [] ses[s].op = "sync" -> "sync_get"
                    [] OTHER -> "adj_load"]
    /\ mark' = [mark EXCEPT ![s].handler = [Snapshot EXCEPT !.baseline = baseline']]
    /\ UNCHANGED <<stock, log, orders, cache, now, presses, base, prev, dirty>>

\* lines 403-411: set_setting, st.cache_data.clear()
SaveBaseline(s) ==
    /\ ses[s].pc = "save_set"
    /\ baseline' = ses[s].in_ts
    /\ cache' = EmptyCache
    /\ ses' = [ses EXCEPT ![s].pc = "sync_get"]
    /\ UNCHANGED <<stock, log, orders, now, presses, hist>>

\* ------------------------------------------- apply_shopify_deductions

\* mutant: a baseline that does not parse is replaced by the current time
\* before the error is raised
SyncGetBaseline_defaulting(s) ==
    /\ ses[s].pc = "sync_get"
    /\ IF parse_iso_raises(baseline)
       THEN /\ ses' = Finish(s, "error", "parse")
            /\ baseline' = Iso(now)
       ELSE /\ ses' = [ses EXCEPT ![s].pc = "load_stock",
                                  ![s].baseline_iso = baseline,
                                  ![s].baseline_dt = parse_iso_dt(baseline)]
            /\ baseline' = baseline
    /\ mark' = [mark EXCEPT ![s].sync = Snapshot, ![s].synced = TRUE]
    /\ UNCHANGED <<stock, log, orders, cache, now, presses, base, prev, dirty>>

\* line 423 get_setting, line 192 parse_iso_dt
SyncGetBaseline(s) ==
    /\ ses[s].pc = "sync_get"
    /\ IF parse_iso_raises(baseline)
       THEN ses' = Finish(s, "error", "parse")
       ELSE ses' = [ses EXCEPT ![s].pc = "load_stock",
                               ![s].baseline_iso = baseline,
                               ![s].baseline_dt = parse_iso_dt(baseline)]
    /\ mark' = [mark EXCEPT ![s].sync = Snapshot, ![s].synced = TRUE]
    /\ UNCHANGED <<stock, log, baseline, orders, cache, now, presses, base, prev, dirty>>

\* line 195
SyncLoadStock(s) ==
    /\ ses[s].pc = "load_stock"
    /\ ses' = [ses EXCEPT ![s].pc = "load_log",
                          ![s].stock_df = load_stock_df(stock)]
    /\ UNCHANGED <<stock, log, baseline, orders, cache, now, presses, hist>>

\* lines 196-200
SyncLoadLog(s) ==
    /\ ses[s].pc = "load_log"
    /\ ses' = [ses EXCEPT ![s].pc = "fetch",
                          ![s].processed_ids = processed_ids_of(log)]
    /\ UNCHANGED <<stock, log, baseline, orders, cache, now, presses, hist>>

\* cached_orders_since: the cached list, or a request whose answer is cached
cached_orders_since(key) ==
    IF key \in DOMAIN cache THEN cache[key]
    ELSE shopify_get_orders_since(orders, parse_iso_dt(key))

\* mutant: the loop over the fetched orders ends at the first order without
\* an id or without a parsable created_at (break instead of continue)
SyncFetch_break(s) ==
    /\ ses[s].pc = "fetch"
    /\ LET key == ses[s].baseline_iso
           got == cached_orders_since(key)
           bad(o) == o.id = 0 \/ o.created_at.kind \in {"empty", "bad"}
           stop == {j \in DOMAIN got : bad(got[j])}
           upto == IF stop = {} THEN Len(got)
                   ELSE (CHOOSE j \in stop : \A m \in stop : j <= m) - 1
           keep(o) == is_new_order(o, ses[s].processed_ids, ses[s].baseline_dt)
           new_orders == SelectSeq(SubSeq(got, 1, upto), keep)
       IN  /\ cache' = [k \in DOMAIN cache \cup {key} |->
                           IF k = key THEN got ELSE cache[k]]
           /\ IF new_orders = <<>>
              THEN ses' = [Finish(s, "ok", "none") EXCEPT ![s].fetched = got]
              ELSE ses' = [ses EXCEPT ![s].pc = "mat", ![s].fetched = got,
                                      ![s].new_orders = new_orders,
                                      ![s].k = 1, ![s].ts = Iso(now)]
    /\ UNCHANGED <<stock, log, baseline, orders, now, presses, hist>>

\* lines 202-230: fetch, keep the new orders, return early without any
SyncFetch(s) ==
    /\ ses[s].pc = "fetch"
    /\ LET key == ses[s].baseline_iso
           got == cached_orders_since(key)
           keep(o) == is_new_order(o, ses[s].processed_ids, ses[s].baseline_dt)
           new_orders == SelectSeq(got, keep)
       IN  /\ cache' = [k \in DOMAIN cache \cup {key} |->
                           IF k = key THEN got ELSE cache[k]]
           /\ IF new_orders = <<>>
              THEN ses' = [Finish(s, "ok", "none") EXCEPT ![s].fetched = got]
              ELSE ses' = [ses EXCEPT ![s].pc = "mat", ![s].fetched = got,
                                      ![s].new_orders = new_orders,
                                      ![s].k = 1, ![s].ts = Iso(now)]
    /\ UNCHANGED <<stock, log, baseline, orders, now, presses, hist>>

CurOrder(s) == ses[s].new_orders[ses[s].k]

\* lines 250-265: the material row of order k
SyncMaterial(s) ==
    /\ ses[s].pc = "mat"
    /\ LET o == CurOrder(s)
           mos_qty == mos_qty_of(o)
       IN  IF mos_qty > 0
           THEN /\ log' = Append(log, LogRow(ses[s].ts, "mosolap", -mos_qty,
                                   Reason("Auto Shopify", o.name), "shopify", o.id))
                /\ ses' = [ses EXCEPT
                     ![s].pc = "env",
                     ![s].stock_df = add_to_stock(ses[s].stock_df, "mosolap", -mos_qty),
                     ![s].total_mosolap_delta = ses[s].total_mosolap_delta + mos_qty]
           ELSE /\ log' = log
                /\ ses' = [ses EXCEPT ![s].pc = "env"]
    /\ UNCHANGED <<stock, baseline, orders, cache, now, presses, hist>>

\* lines 268-271: the envelope row of order k, then the next order
SyncEnvelope(s) ==
    /\ ses[s].pc = "env"
    /\ LET o == CurOrder(s)
           env == envelope_type(mos_qty_of(o))
           last == ses[s].k = Len(ses[s].new_orders)
           next_pc == IF last THEN "write_stock" ELSE "mat"
           next_k == IF last THEN ses[s].k ELSE ses[s].k + 1
       IN  IF env \in EnvNames
           THEN /\ log' = Append(log, LogRow(ses[s].ts, env, -1,
                                   Reason("Auto Shopify", o.name), "shopify", o.id))
                /\ ses' = [ses EXCEPT
                     ![s].pc = next_pc, ![s].k = next_k,
                     ![s].stock_df = add_to_stock(ses[s].stock_df, env, -1),
                     ![s].env_counts[env] = ses[s].env_counts[env] + 1]
           ELSE /\ log' = log
                /\ ses' = [ses EXCEPT ![s].pc = next_pc, ![s].k = next_k]
    /\ UNCHANGED <<stock, baseline, orders, cache, now, presses, hist>>

\* mutant: after the stock write the baseline is moved to the call's
\* timestamp
SyncWriteStock_advancing(s) ==
    /\ ses[s].pc = "write_stock"
    /\ stock' = ses[s].stock_df
    /\ baseline' = ses[s].ts
    /\ ses' = Finish(s, "ok", "none")
    /\ UNCHANGED <<log, orders, cache, now, presses, hist>>

\* lines 276-280: write_stock_df, return the counts
SyncWriteStock(s) ==
    /\ ses[s].pc = "write_stock"
    /\ stock' = ses[s].stock_df
    /\ ses' = Finish(s, "ok", "none")
    /\ UNCHANGED <<log, baseline, orders, cache, now, presses, hist>>

\* ------------------------------------------------- apply_manual_delta

\* line 441: the stock the form works on
AdjustLoadStock(s) ==
    /\ ses[s].pc = "adj_load"
    /\ ses' = [ses EXCEPT ![s].pc = "adj_write",
                          ![s].stock_df = load_stock_df(stock)]
    /\ UNCHANGED <<stock, log, baseline, orders, cache, now, presses, hist>>

\* mutant: the reason is not stripped and the amount may exceed the
\* quantity by one
adjust_rejected_loose(stock_df, item, delta, reason) ==
    \/ delta < 0 /\ -delta > Qty(stock_df, item) + 1
    \/ reason = ""
    \/ ~stock_df[item].present

\* lines 519-525 and 485-493: what the handlers refuse
adjust_rejected(stock_df, item, delta, reason) ==
    \/ delta < 0 /\ -delta > Qty(stock_df, item)
    \/ strip(reason) = ""
    \/ ~stock_df[item].present

\* lines 514-525, 485-497: validation, then the stock write
AdjustWriteStock(s) ==
    /\ ses[s].pc = "adj_write"
    /\ IF adjust_rejected(ses[s].stock_df, ses[s].item, ses[s].delta, ses[s].reason)
       THEN /\ ses' = Finish(s, "rejected", "adj_write")
            /\ stock' = stock
       ELSE LET df == add_to_stock(ses[s].stock_df, ses[s].item, ses[s].delta)
            IN  /\ stock' = df
                /\ ses' = [ses EXCEPT ![s].pc = "adj_log", ![s].stock_df = df]
    /\ UNCHANGED <<log, baseline, orders, cache, now, presses, hist>>

\* mutant: the row is written over the last row of the sheet (an update of
\* the last line in place of append_row)
AdjustAppendLog_overwrite(s) ==
    /\ ses[s].pc = "adj_log"
    /\ LET row == LogRow(ses[s].in_ts, ses[s].item, ses[s].delta,
                         Reason(ses[s].reason, 0), "manual", 0)
       IN  log' = IF log = <<>> THEN <<row>> ELSE [log EXCEPT ![Len(log)] = row]
    /\ ses' = [ses EXCEPT ![s].pc = "adj_set", ![s].ts = ses[s].in_ts]
    /\ UNCHANGED <<stock, baseline, orders, cache, now, presses, hist>>

\* mutant: the row is stamped with the current time, not with the form's
\* date and time
AdjustAppendLog_now(s) ==
    /\ ses[s].pc = "adj_log"
    /\ log' = Append(log, LogRow(Iso(now), ses[s].item, ses[s].delta,
                                 Reason(ses[s].reason, 0), "manual", 0))
    /\ ses' = [ses EXCEPT ![s].pc = "adj_set", ![s].ts = Iso(now)]
    /\ UNCHANGED <<stock, baseline, orders, cache, now, presses, hist>>

\* lines 500-501
AdjustAppendLog(s) ==
    /\ ses[s].pc = "adj_log"
    /\ log' = Append(log, LogRow(ses[s].in_ts, ses[s].item, ses[s].delta,
                                 Reason(ses[s].reason, 0), "manual", 0))
    /\ ses' = [ses EXCEPT ![s].pc = "adj_set", ![s].ts = ses[s].in_ts]
    /\ UNCHANGED <<stock, baseline, orders, cache, now, presses, hist>>

\* lines 504-508: set_setting, cache clear, apply_shopify_deductions(ts)
AdjustSetBaseline(s) ==
    /\ ses[s].pc = "adj_set"
    /\ baseline' = ses[s].ts
    /\ cache' = EmptyCache
    /\ ses' = [ses EXCEPT ![s].pc = "load_stock",
                          ![s].baseline_iso = ses[s].ts,
                          ![s].baseline_dt = parse_iso_dt(ses[s].ts)]
    /\ mark' = [mark EXCEPT ![s].sync = [Snapshot EXCEPT !.baseline = ses[s].ts],
                            ![s].synced = TRUE]
    /\ UNCHANGED <<stock, log, orders, now, presses, base, prev, dirty>>

\* ------------------------------------------------------------ failures

\* can the call the step at the session's position makes fail: a write to a
\* sheet, or the request to the order source.  (A failing read of a sheet
\* ends the run as a failing request does, with nothing more written.)
CallsOut(s) ==
    CASE ses[s].pc \in {"save_set", "write_stock", "adj_log", "adj_set"} -> TRUE
      [] ses[s].pc = "fetch" -> ses[s].baseline_iso \notin DOMAIN cache
      [] ses[s].pc = "mat" -> mos_qty_of(CurOrder(s)) > 0
      [] ses[s].pc = "env" -> envelope_type(mos_qty_of(CurOrder(s))) \in EnvNames
      [] ses[s].pc = "adj_write" ->
            ~adjust_rejected(ses[s].stock_df, ses[s].item, ses[s].delta, ses[s].reason)
      [] OTHER -> FALSE

\* the steps that write a sheet
WriteSteps == {"save_set", "mat", "env", "write_stock",
               "adj_write", "adj_log", "adj_set"}
\* the steps of the batch of apply_shopify_deductions
BatchSteps == {"mat", "env", "write_stock"}

\* the call raises (gspread APIError, requests exception) or the process
\* stops: the run ends there and what was written stays written
Fail(s) ==
    /\ CallsOut(s)
    /\ ses' = Finish(s, "error", ses[s].pc)
    /\ dirty' = (dirty \/ ses[s].pc \in WriteSteps)
    /\ UNCHANGED <<stock, log, baseline, orders, cache, now, presses, base, mark, prev>>

\* history: what the returning sync call leaves in prev
Returned(s) ==
    LET r == ses[s].result
        midbatch == r.status = "error" /\ r.at \in BatchSteps
        again == prev.status = "error" /\ prev.at \in BatchSteps
                 /\ prev.key = ses[s].baseline_iso
    IN  [status |-> r.status, at |-> r.at, key |-> ses[s].baseline_iso,
         fetched |-> IF r.status = "ok" THEN ses[s].fetched ELSE <<>>,
         stock0 |-> IF ~midbatch THEN NoPrev.stock0
                    ELSE IF again THEN prev.stock0 ELSE mark[s].sync.stock,
         len0 |-> IF ~midbatch THEN 0
                  ELSE IF again THEN prev.len0 ELSE mark[s].sync.len]

\* the run is over; the session waits for the next click
Return(s) ==
    /\ ses[s].pc = "done"
    /\ ses' = [ses EXCEPT ![s] = Idle]
    /\ mark' = [mark EXCEPT ![s] = NoMark]
    /\ prev' = IF mark[s].synced THEN Returned(s)
               ELSE IF ses[s].op = "sync" \/ ses[s].result.status = "rejected" THEN prev
               ELSE NoPrev
    /\ UNCHANGED <<stock, log, baseline, orders, cache, now, presses, base, dirty>>

\* ------------------------------------------------------- specifications

Step(s) ==
    \/ ClickSync(s)
    \/ ClickSave(s)
    \/ ClickAdjust(s)
    \/ PageBaseline(s)
    \/ SaveBaseline(s)
    \/ SyncGetBaseline(s)
    \/ SyncLoadStock(s)
    \/ SyncLoadLog(s)
    \/ SyncFetch(s)
    \/ SyncMaterial(s)
    \/ SyncEnvelope(s)
    \/ SyncWriteStock(s)
    \/ AdjustLoadStock(s)
    \/ AdjustWriteStock(s)
    \/ AdjustAppendLog(s)
    \/ AdjustSetBaseline(s)
    \/ Fail(s)
    \/ Return(s)

Environment == Tick \/ NewOrder \/ ExpireCache

\* one session: no two runs overlap
Next == Step(1) \/ Environment
Spec == Init /\ [][Next]_vars

\* two sessions press the sync button while orders come in; their runs
\* interleave step by step on the shared sheets and cache
SharedStep(s) ==
    \/ ClickSync(s)
    \/ PageBaseline(s)
    \/ SyncGetBaseline(s)
    \/ SyncLoadStock(s)
    \/ SyncLoadLog(s)
    \/ SyncFetch(s)
    \/ SyncMaterial(s)
    \/ SyncEnvelope(s)
    \/ SyncWriteStock(s)
    \/ Return(s)

NextShared == (\E s \in Sessions : SharedStep(s)) \/ Tick \/ NewOrder
SpecShared == Init /\ [][NextShared]_vars

\* the sync button pressed again and again while the source also sends
\* order events without an id, without created_at or with a created_at that
\* is no ISO timestamp
AnyOrder == OrderEvent({"ok", "no_id", "no_ts", "bad_ts"}, LineItemChoices)

NextMalformed == SharedStep(1) \/ Tick \/ AnyOrder \/ ExpireCache
SpecMalformed == Init /\ [][NextMalformed]_vars

\* the sync button pressed again and again over orders with line items of
\* every title and quantity
WideOrder == OrderEvent({"ok"}, WideLineItems)

NextClassify == SharedStep(1) \/ Tick \/ WideOrder
SpecClassify == Init /\ [][NextClassify]_vars

\* a shop with one order more since the baseline than one request returns:
\* FetchLimit + 1 orders of one mosolap each, created at instant 1, the
\* baseline at instant 0 and nothing logged yet
Backlog ==
    [j \in 1..(FetchLimit + 1) |->
        [id |-> j, name |-> j, t |-> 1, created_at |-> Iso(1),
         line_items |-> << [title |-> "Mosolap 60 db", quantity |-> 1] >>]]

InitBacklog ==
    /\ stock = [i \in Items |-> IF i = "mosolap" THEN Row(InitMosolap)
                                  ELSE Row(InitEnvelopes)]
    /\ log = <<>>
    /\ baseline = Iso(0)
    /\ orders = Backlog
    /\ cache = EmptyCache
    /\ now = 1
    /\ ses = [s \in Sessions |-> Idle]
    /\ presses = 0
    /\ base = stock
    /\ mark = [s \in Sessions |-> NoMark]
    /\ prev = NoPrev
    /\ dirty = FALSE

\* the sync button is pressed again and again and every call succeeds; each
\* run goes on to its end, and a cache entry is dropped 120 s after it was
\* stored, however often the button is pressed in between
NextBacklog == SharedStep(1) \/ ExpireCache
SpecBacklog ==
    /\ InitBacklog /\ [][NextBacklog]_vars
    /\ WF_vars(SharedStep(1))
    /\ SF_vars(ExpireCache)

\* -------------------------------------------------------------- properties

Range(f) == {f[j] : j \in DOMAIN f}

\* the rows the log gained after it had n rows
AppendedSince(n) == SubSeq(log, n + 1, Len(log))

\* the sum of the changes the rows book on an item
RECURSIVE SumDelta(_, _)
SumDelta(rows, item) ==
    IF rows = <<>> THEN 0
    ELSE (IF Head(rows).item_name = item THEN Head(rows).change ELSE 0)
         + SumDelta(Tail(rows), item)

\* the rows of the log that an order id has, material and envelope
MaterialRows(id) ==
    {j \in DOMAIN log : /\ log[j].source = "shopify" /\ log[j].source_id = id
                        /\ log[j].item_name = "mosolap"}
EnvelopeRows(id) ==
    {j \in DOMAIN log : /\ log[j].source = "shopify" /\ log[j].source_id = id
                        /\ log[j].item_name \in EnvNames}

\* a session whose sync call has returned its counts
SyncReturned(s) ==
    ses[s].pc = "done" /\ mark[s].synced /\ ses[s].result.status = "ok"

\* the returned sync call repeats the previous one: that one succeeded, on
\* the same baseline, and the order source gives this call nothing more
RepeatsPrevious(s) ==
    /\ SyncReturned(s)
    /\ prev.status = "ok"
    /\ prev.key = ses[s].baseline_iso
    /\ Range(ses[s].fetched) \subseteq Range(prev.fetched)

C2_OnePairPerOrder ==
    \A id \in 1..MaxOrders :
        /\ Cardinality(MaterialRows(id)) <= 1
        /\ Cardinality(EnvelopeRows(id)) <= 1

\* C2 witness: a sync call on another baseline than the call before it
\* fetched an order that is newer than its baseline and already in the log
C2_Witness ==
    \E s \in Sessions :
        /\ SyncReturned(s)
        /\ prev.status = "ok" /\ prev.key # ses[s].baseline_iso
        /\ \E o \in Range(ses[s].fetched) :
            /\ o.created_at.t > ses[s].baseline_dt
            /\ o.id \in ses[s].processed_ids
            /\ o \in Range(prev.fetched)
            /\ Cardinality(EnvelopeRows(o.id)) = 1

AllIdle == \A s \in Sessions : ses[s].pc = "idle"

\* the shopify rows of the log that carry the id
RowsOf(id) ==
    LET mine(r) == r.source = "shopify" /\ r.source_id = id
    IN  SelectSeq(log, mine)

\* stock_current shows, for every item, the starting quantity plus the
\* changes the rows booked on it
ProjectionIs(from, rows) ==
    \A i \in Items : Qty(stock, i) = Qty(from, i) + SumDelta(rows, i)

\* C3: with sync runs of two sessions interleaving, no order is deducted
\* more than once in the log, and once both are back at rest stock_current
\* shows every deduction of the log (none lost, none doubled)
C3_SingleFlight ==
    /\ \A o \in Range(orders) :
          o.id # 0 => -SumDelta(RowsOf(o.id), "mosolap") <= mos_qty_of(o)
    /\ AllIdle => ProjectionIs(base, log)

\* the order has its material row / its envelope row in the log
HasMaterial(o) == MaterialRows(o.id) # {}
HasEnvelope(o) == EnvelopeRows(o.id) # {}

\* C4: between runs, an order that yields a material and an envelope
\* deduction has both rows in the log or neither
C4_PairIsAtomic ==
    AllIdle =>
        \A o \in Range(orders) :
            (o.id # 0 /\ mos_qty_of(o) \in 1..6) => (HasMaterial(o) <=> HasEnvelope(o))

\* the category the specification's table gives a consumable quantity
Category(q) ==
    CASE q = 1 -> "F16"
      [] q \in 2..3 -> "H18"
      [] q = 4 -> "I19"
      [] q \in 5..6 -> "K20"
      [] OTHER -> "NoCategory"

\* the rows one new order is to add: the material row when q > 0, the
\* category row when q is in 1..6, both with the call's timestamp
RowsFor(o, ts) ==
    LET q == mos_qty_of(o)
        why == Reason("Auto Shopify", o.name)
    IN  (IF q > 0 THEN << LogRow(ts, "mosolap", -q, why, "shopify", o.id) >> ELSE << >>)
        \o (IF Category(q) # "NoCategory"
            THEN << LogRow(ts, Category(q), -1, why, "shopify", o.id) >> ELSE << >>)

RECURSIVE RowsForAll(_, _)
RowsForAll(os, ts) ==
    IF os = <<>> THEN <<>> ELSE RowsFor(Head(os), ts) \o RowsForAll(Tail(os), ts)

\* C5: a successful sync call adds, for each order it took as new and in
\* their order, exactly the material row (mosolap, -q) when q > 0 and the
\* category row (category(q), -1) when q is in 1..6, all with the order's id,
\* source shopify and the call's one timestamp, and nothing for q = 0;
\* stock_current changes by exactly these rows
C5_DeductionShape ==
    \A s \in Sessions :
        SyncReturned(s) =>
            /\ AppendedSince(mark[s].sync.len) = RowsForAll(ses[s].new_orders, ses[s].ts)
            /\ ProjectionIs(mark[s].sync.stock, AppendedSince(mark[s].sync.len))

\* C5 witness: Scenario A (3 items and a priority item) and an order of
\* quantity 0 processed by one call; mosolap down by 3, H18 by 1
C5_Witness ==
    \E s \in Sessions :
        /\ SyncReturned(s)
        /\ \E o1, o2 \in Range(ses[s].new_orders) :
            /\ mos_qty_of(o1) = 3 /\ Len(o1.line_items) = 2
            /\ mos_qty_of(o2) = 0
        /\ Qty(stock, "mosolap") = Qty(mark[s].sync.stock, "mosolap") - 3
        /\ Qty(stock, "H18") = Qty(mark[s].sync.stock, "H18") - 1
        /\ Len(log) = mark[s].sync.len + 2

\* the orders of the source created strictly after the instant
NewerThan(t) == {o \in Range(orders) : o.created_at.kind = "aware" /\ o.created_at.t > t}

\* C6: every row a sync call appends belongs to an order created strictly
\* after the call's baseline, and a call that finds no such order leaves
\* stock_current as it is
C6_StrictlyNewer ==
    \A s \in Sessions :
        (mark[s].synced /\ ses[s].pc \in {"mat", "env", "write_stock", "done"}) =>
            /\ \A j \in (mark[s].sync.len + 1)..Len(log) :
                  \E o \in NewerThan(ses[s].baseline_dt) : o.id = log[j].source_id
            /\ \A o \in Range(ses[s].new_orders) : o \in NewerThan(ses[s].baseline_dt)
            /\ (\A o \in Range(ses[s].fetched) : o \notin NewerThan(ses[s].baseline_dt))
                  => stock = mark[s].sync.stock

\* C6 witness: a call returned after fetching an unprocessed order with a
\* positive quantity created exactly at the baseline instant
C6_Witness ==
    \E s \in Sessions :
        /\ SyncReturned(s)
        /\ \E o \in Range(ses[s].fetched) :
            /\ o.created_at.t = ses[s].baseline_dt
            /\ o.id \notin ses[s].processed_ids
            /\ mos_qty_of(o) > 0
            /\ ~HasMaterial(o)

\* C7: as long as no write has failed, between runs stock_current shows for
\* every item its starting quantity (0 for an item without a row) plus the
\* changes of all rows of the log
C7_ProjectionFollowsLog ==
    (AllIdle /\ ~dirty) => ProjectionIs(base, log)

\* C7 witness: no write failed, the log holds an order's rows and a manual
\* row, and the engine has created the H18 row the sheet started without
C7_Witness ==
    /\ AllIdle /\ ~dirty
    /\ ~base["H18"].present /\ stock["H18"].present
    /\ \E j, k \in DOMAIN log : log[j].source = "manual" /\ log[k].item_name = "H18"

\* a successful sync call that retries calls which failed within the batch
\* on the same baseline
RetrySucceeded(s) ==
    /\ SyncReturned(s)
    /\ prev.status = "error" /\ prev.at \in BatchSteps
    /\ prev.key = ses[s].baseline_iso

\* C8: when a sync call that retries a call failed within the batch
\* succeeds, stock_current shows every row appended since the first failed
\* call began, and every order newer than the baseline with a positive
\* quantity has its material row, and its envelope row for a quantity in 1..6
C8_RetryConverges ==
    \A s \in Sessions :
        RetrySucceeded(s) =>
            /\ ProjectionIs(prev.stock0, AppendedSince(prev.len0))
            /\ \A o \in Range(ses[s].fetched) :
                  (o \in NewerThan(ses[s].baseline_dt) /\ o.id # 0 /\ mos_qty_of(o) > 0) =>
                      /\ Cardinality(MaterialRows(o.id)) = 1
                      /\ mos_qty_of(o) \in 1..6 => Cardinality(EnvelopeRows(o.id)) = 1

\* C9: a sync call that ends in a failed fetch or on a baseline that does
\* not parse leaves the log, stock_current and the baseline setting as they
\* were when it was called
C9_FetchFailureIsClean ==
    \A s \in Sessions :
        (/\ ses[s].pc = "done" /\ mark[s].synced
         /\ ses[s].result.status = "error"
         /\ ses[s].result.at \in {"fetch", "parse"}) =>
            /\ Len(log) = mark[s].sync.len
            /\ stock = mark[s].sync.stock
            /\ baseline = mark[s].sync.baseline

\* C9 witness: the fetch failed while the source held an order newer than
\* the baseline that the log does not know
C9_Witness ==
    \E s \in Sessions :
        /\ ses[s].pc = "done" /\ mark[s].synced
        /\ ses[s].result.status = "error" /\ ses[s].result.at = "fetch"
        /\ \E o \in NewerThan(ses[s].baseline_dt) :
              mos_qty_of(o) > 0 /\ o.id \notin ses[s].processed_ids

\* the steps of a manual change after its validation
AdjustAccepted(s) ==
    ses[s].op = "adjust"
    /\ (ses[s].pc \in {"adj_log", "adj_set"} \/ mark[s].synced)

\* C10: a manual change with a blank reason, or a deduction above the
\* item's quantity, never passes validation; a rejected one leaves the log,
\* stock_current and the baseline as the handler found them and runs no
\* sync; and right after the stock write of a deduction the item's
\* quantity is not negative
C10_AdjustValidation ==
    \A s \in Sessions :
        /\ AdjustAccepted(s) =>
              /\ strip(ses[s].reason) # ""
              /\ ses[s].delta < 0 => -ses[s].delta <= Qty(mark[s].handler.stock, ses[s].item)
        /\ (ses[s].pc = "done" /\ ses[s].result.status = "rejected") =>
              /\ Len(log) = mark[s].handler.len
              /\ stock = mark[s].handler.stock
              /\ baseline = mark[s].handler.baseline
              /\ ~mark[s].synced
        /\ (ses[s].pc = "adj_log" /\ ses[s].delta < 0) => Qty(stock, ses[s].item) >= 0

\* C10 witness: a deduction with a reason, rejected because an earlier order
\* has used up the item
C10_Witness ==
    \E s \in Sessions :
        /\ ses[s].pc = "done" /\ ses[s].result.status = "rejected"
        /\ strip(ses[s].reason) # "" /\ ses[s].delta = -1
        /\ Qty(stock, ses[s].item) = 0
        /\ log # <<>>

\* the change a manual adjustment books on an item
AdjustDelta(s, i) == IF i = ses[s].item THEN ses[s].delta ELSE 0

\* the row a manual adjustment is to add
ManualRow(s) ==
    LogRow(ses[s].in_ts, ses[s].item, ses[s].delta, Reason(ses[s].reason, 0), "manual", 0)

\* a manual adjustment whose handler ran to its end, the sync call included
AdjustDone(s) == ses[s].op = "adjust" /\ SyncReturned(s)

\* C11: a manual adjustment that passes validation and runs to its end has
\* appended exactly one manual row (empty source_id, the form's timestamp T
\* and delta) and after it only rows of the sync call, which ran on baseline
\* T; the baseline setting is T; right after the stock write the item's
\* quantity is up by delta and no other quantity has changed; and when the
\* source holds no order created after T the manual row is the only new row
\* and the net change of stock_current is delta on the item, 0 elsewhere
C11_ManualAdjust ==
    \A s \in Sessions :
        /\ (ses[s].op = "adjust" /\ ses[s].pc = "adj_log") =>
              \A i \in Items :
                  Qty(stock, i) = Qty(mark[s].handler.stock, i) + AdjustDelta(s, i)
        /\ AdjustDone(s) =>
              LET new == AppendedSince(mark[s].handler.len)
              IN  /\ new # <<>>
                  /\ Head(new) = ManualRow(s)
                  /\ \A j \in 2..Len(new) : new[j].source = "shopify"
                  /\ mark[s].sync.len = mark[s].handler.len + 1
                  /\ ses[s].baseline_iso = ses[s].in_ts
                  /\ baseline = ses[s].in_ts
                  /\ NewerThan(parse_iso_dt(ses[s].in_ts)) = {} =>
                        /\ Len(new) = 1
                        /\ \A i \in Items :
                              Qty(stock, i) = Qty(mark[s].handler.stock, i) + AdjustDelta(s, i)

\* C11 witness (Scenario B): a Feltöltés with T other than the current time
\* ran to its end while the source held an unlogged order with a positive
\* quantity created at T, and none after T
C11_Witness ==
    \E s \in Sessions :
        /\ AdjustDone(s)
        /\ ses[s].delta > 0
        /\ parse_iso_dt(ses[s].in_ts) # now
        /\ NewerThan(parse_iso_dt(ses[s].in_ts)) = {}
        /\ \E o \in Range(orders) :
              /\ o.t = parse_iso_dt(ses[s].in_ts)
              /\ mos_qty_of(o) > 0 /\ ~HasMaterial(o)

\* is the sequence a prefix of the other
IsPrefix(a, b) == Len(a) <= Len(b) /\ SubSeq(b, 1, Len(a)) = a

\* a sync call that ended in a failed write of its batch
BatchFailed(s) ==
    /\ ses[s].pc = "done" /\ mark[s].synced
    /\ ses[s].result.status = "error" /\ ses[s].result.at \in BatchSteps

\* how many of the call's new orders, from the first on, have their rows
\* in the log, all of them (an order that books no row does not count)
Committed(s) ==
    LET new == AppendedSince(mark[s].sync.len)
        done(n) == IsPrefix(RowsForAll(SubSeq(ses[s].new_orders, 1, n), ses[s].ts), new)
        ns == {n \in 0..Len(ses[s].new_orders) : done(n)}
        last == CHOOSE n \in ns : \A m \in ns : m <= n
    IN  Cardinality({j \in 1..last : RowsFor(ses[s].new_orders[j], ses[s].ts) # <<>>})

\* C12: when a write fails within the batch of a sync call, the rows the
\* call has appended are those of its first orders and of none after the
\* failure, and what the caller receives carries the number of orders whose
\* rows were committed before the failure
C12_FailureReport ==
    \A s \in Sessions :
        BatchFailed(s) =>
            /\ IsPrefix(AppendedSince(mark[s].sync.len),
                        RowsForAll(ses[s].new_orders, ses[s].ts))
            /\ ses[s].result.processed_orders = Committed(s)

\* C13: no step moves the baseline setting from one instant to an earlier
\* one (a manual adjustment and a baseline save only advance it)
C13_BaselineOnlyAdvances ==
    [][(~parse_iso_raises(baseline) /\ ~parse_iso_raises(baseline'))
          => parse_iso_dt(baseline') >= parse_iso_dt(baseline)]_vars

\* an order event with an id and a created_at that parses
WellFormed(o) == o.id # 0 /\ o.created_at.kind \in {"aware", "naive"}

\* the events of a fetch result the claim has processed: those with an id
\* not yet in the log and created after the baseline
Eligible(s, os) ==
    LET ok(o) == /\ o.id \notin ses[s].processed_ids
                 /\ parse_iso_dt(o.created_at) > ses[s].baseline_dt
    IN  SelectSeq(os, ok)

\* C14: a successful sync call appends exactly the rows that the fetch
\* result with its malformed events (no id, no or no parsable created_at)
\* taken out gives, for all its eligible events and in their order;
\* stock_current changes by these rows, and no row carries the id of a
\* malformed event
C14_BadEventSkipped ==
    \A s \in Sessions :
        SyncReturned(s) =>
            LET good == SelectSeq(ses[s].fetched, WellFormed)
                new == AppendedSince(mark[s].sync.len)
            IN  /\ new = RowsForAll(Eligible(s, good), ses[s].ts)
                /\ ProjectionIs(mark[s].sync.stock, new)
                /\ \A o \in Range(ses[s].fetched) :
                      ~WellFormed(o) => RowsOf(o.id) = <<>>

\* C14 witness: a call returned whose fetch result held a malformed event
\* before an eligible order, and the order's rows are in the log
C14_Witness ==
    \E s \in Sessions :
        /\ SyncReturned(s)
        /\ \E i, j \in DOMAIN ses[s].fetched :
              /\ i < j
              /\ ~WellFormed(ses[s].fetched[i])
              /\ ses[s].fetched[i].created_at.kind = "bad"
              /\ ses[s].fetched[j] \in Range(ses[s].new_orders)
              /\ mos_qty_of(ses[s].fetched[j]) = 3
              /\ HasMaterial(ses[s].fetched[j]) /\ HasEnvelope(ses[s].fetched[j])
        /\ Len(log) = mark[s].sync.len + 2

\* C15: every step of a sync call, a manual adjustment or a baseline save
\* leaves the rows the log already has in place and unchanged; the log
\* after the step has the log before it as a prefix
C15_AppendOnly == [][IsPrefix(log, log')]_vars

\* C15 witness: the log holds the rows of an order, then a manual row, then
\* the row of another order, written by different runs
C15_Witness ==
    \E i, j, k \in DOMAIN log :
        /\ i < j /\ j < k
        /\ log[i].source = "shopify" /\ log[j].source = "manual"
        /\ log[k].source = "shopify" /\ log[k].source_id # log[i].source_id

\* the classification table of the specification
ClassifyTable(q) ==
    CASE q = 1 -> "F16"
      [] q = 2 -> "H18"
      [] q = 3 -> "H18"
      [] q = 4 -> "I19"
      [] q = 5 -> "K20"
      [] q = 6 -> "K20"
      [] OTHER -> "Nincs"

\* the items of the envelope rows the log holds for the order
EnvelopeItems(o) == {log[j].item_name : j \in EnvelopeRows(o.id)}

\* C16: envelope_type gives every consumable quantity of an order at the
\* source the category of the table (F16 for 1, H18 for 2 and 3, I19 for 4,
\* K20 for 5 and 6, Nincs for 0 and from 7 on), and a successful sync call
\* books for each new order the envelope of that category, or none for Nincs
C16_ClassificationTable ==
    /\ \A o \in Range(orders) :
          envelope_type(mos_qty_of(o)) = ClassifyTable(mos_qty_of(o))
    /\ \A s \in Sessions :
          SyncReturned(s) =>
              \A o \in Range(ses[s].new_orders) :
                  EnvelopeItems(o) = {ClassifyTable(mos_qty_of(o))} \ {"Nincs"}

\* C16 witness: one call has processed an order of quantity 6 (K20) and an
\* order of quantity 7 (no category: a material row and no envelope row)
C16_Witness ==
    \E s \in Sessions :
        /\ SyncReturned(s)
        /\ \E o1, o2 \in Range(ses[s].new_orders) :
              /\ mos_qty_of(o1) = 6 /\ EnvelopeItems(o1) = {"K20"}
              /\ mos_qty_of(o2) = 7 /\ EnvelopeItems(o2) = {} /\ HasMaterial(o2)

\* the titles that contain a priority or express keyword when upper and
\* lower case are taken as equal: express, gyorsitott, elsőbbségi
KeywordTitles ==
    {"Express shipping label", "GYORSITOTT kiszallitas", "ELSO:BBSE'GI ke'zbesi'te's"}

\* the consumable quantity of the specification: the quantities of the line
\* items without a keyword in the title, summed
ConsumableQty(o) ==
    LET counts(i) == i.title \notin KeywordTitles
    IN  SumQty(SelectSeq(o.line_items, counts))

\* C17: the quantity the engine takes for an order is the sum of the
\* quantities of its line items whose title holds no keyword, whatever the
\* case of the letters; a line item with a keyword adds nothing: the
\* material row of a processed order books minus that sum and its envelope
\* row is of the sum's category
C17_PriorityFiltering ==
    /\ \A o \in Range(orders) : mos_qty_of(o) = ConsumableQty(o)
    /\ \A s \in Sessions :
          SyncReturned(s) =>
              \A o \in Range(ses[s].new_orders) :
                  /\ -SumDelta(RowsOf(o.id), "mosolap") = ConsumableQty(o)
                  /\ EnvelopeItems(o) = {ClassifyTable(ConsumableQty(o))} \ {"Nincs"}

\* C17 witness: one call has processed an order of 3 mosolap and an
\* "Express shipping label" of quantity 5 (booked as 3 and H18) and an order
\* of two keyword items in upper case (nothing booked)
C17_Witness ==
    \E s \in Sessions :
        /\ SyncReturned(s)
        /\ \E o1, o2 \in Range(ses[s].new_orders) :
              /\ o1.line_items = << [title |-> "Mosolap 60 db", quantity |-> 3],
                                    [title |-> "Express shipping label", quantity |-> 5] >>
              /\ SumDelta(RowsOf(o1.id), "mosolap") = -3
              /\ EnvelopeItems(o1) = {"H18"}
              /\ o2.line_items = << [title |-> "ELSO:BBSE'GI ke'zbesi'te's", quantity |-> 3],
                                    [title |-> "GYORSITOTT kiszallitas", quantity |-> 5] >>
              /\ RowsOf(o2.id) = <<>>

\* how many of the rows book on the item
CountRows(rows, item) == Cardinality({j \in DOMAIN rows : rows[j].item_name = item})

\* C18: the counts a successful sync call returns are those of the rows it
\* appended: the number of orders it took as new, minus the sum of the
\* changes of its mosolap rows, per envelope the number of its rows; and a
\* call that appended no row returns 0 new orders
C18_ReportMatchesLog ==
    \A s \in Sessions :
        SyncReturned(s) =>
            LET new == AppendedSince(mark[s].sync.len)
                r == ses[s].result
            IN  /\ r.processed_orders =
                      Len(Eligible(s, SelectSeq(ses[s].fetched, WellFormed)))
                /\ r.total_mosolap_delta = -SumDelta(new, "mosolap")
                /\ \A c \in EnvNames : r.env_counts[c] = CountRows(new, c)
                /\ new = <<>> => r.processed_orders = 0

\* the steps of apply_shopify_deductions and of the caller's get_setting
SyncSteps == {"sync_get", "load_stock", "load_log", "fetch", "mat", "env", "write_stock"}

\* the session takes a step from the position
StepsFrom(s, pcs) == ses[s].pc \in pcs /\ ses'[s] # ses[s]

\* C19 as stated: no step of a sync call changes the baseline setting, and
\* the setting changes only in the set_setting of a manual adjustment or of
\* a baseline save
C19_OnlyAdjustOrSave ==
    [][/\ \A s \in Sessions : StepsFrom(s, SyncSteps) => baseline' = baseline
       /\ baseline' # baseline =>
              \E s \in Sessions : StepsFrom(s, {"save_set", "adj_set"})]_vars

\* C19 amended: no step of a sync call changes the baseline setting,
\* whether the call succeeds, finds nothing new or fails; the setting
\* changes only in the set_setting of a manual adjustment or of a baseline
\* save, or when the tab starts with an empty setting and defaults it to the
\* current time
C19_SyncKeepsBaseline ==
    [][/\ \A s \in Sessions : StepsFrom(s, SyncSteps) => baseline' = baseline
       /\ baseline' # baseline =>
              \E s \in Sessions :
                  \/ StepsFrom(s, {"save_set", "adj_set"})
                  \/ /\ StepsFrom(s, {"page"})
                     /\ baseline.kind = "empty" /\ baseline' = Iso(now)]_vars

\* C19 witness: a sync call from the sync button has appended rows, written
\* the stock and returned, and the setting is what the call read
C19_Witness ==
    \E s \in Sessions :
        /\ ses[s].op = "sync" /\ SyncReturned(s)
        /\ Len(log) > mark[s].sync.len
        /\ stock # mark[s].sync.stock
        /\ baseline = mark[s].sync.baseline
        /\ baseline = ses[s].baseline_iso

\* the orders of the source that the engine has to ingest: with an id and a
\* timestamp, created after the baseline setting, with a positive quantity
ToIngest ==
    {o \in Range(orders) :
        /\ WellFormed(o)
        /\ ~parse_iso_raises(baseline)
        /\ parse_iso_dt(o.created_at) > parse_iso_dt(baseline)
        /\ mos_qty_of(o) > 0}

\* C20: with the baseline unchanged and sync called again and again with
\* success, the log eventually holds a material row for every order of the
\* source created after the baseline with a positive quantity, however many
\* there are
C20_Completeness == <>(\A o \in ToIngest : HasMaterial(o))

====
